---- MODULE Spec2Model ----
(***************************************************************************)
(* A model of two UI integration points of the editor:                     *)
(*   - DockerPanel       (crates/docker_ui/src/docker_ui.rs)               *)
(*   - MenuBarIcon       (crates/zed/src/zed/menu_bar_icon.rs)             *)
(*                                                                         *)
(* Pixel quantities (f32 in the source) are counted in HALF pixels, so     *)
(* that 3 stands for 1.5px and a whole pixel count is an even number.      *)
(* Option<T> is a sequence of length 0 (None) or 1 (Some).                 *)
(* A string held by the key-value store is a sequence of JSON tokens.      *)
(***************************************************************************)
EXTENDS Integers, Sequences, FiniteSets, Bags, TLC

\* ------------------------------------------------------------------ bounds
MaxHalfPx == 2
MaxSetSize == 2
MaxCalls == 2
MaxClicks == 2

\* ------------------------------------------------------------- Option<T>
None == <<>>
Some(x) == <<x>>
IsSome(o) == Len(o) = 1
Unwrap(o) == o[1]

\* ---------------------------------------------------------------- Pixels
Pixels == (0 - MaxHalfPx)..MaxHalfPx
OptPixels == {None} \cup {Some(h) : h \in Pixels}

Abs(x) == IF x < 0 THEN 0 - x ELSE x

\* round left out: the stored width is applied as it is.
round_missing(h) == h

\* f32::round on a half-pixel count: nearest whole pixel, halves go away
\* from zero.
round(h) == IF h >= 0 THEN 2 * ((h + 1) \div 2) ELSE 0 - 2 * ((1 - h) \div 2)

\* ------------------------------------------------- SerializedDockerPanel
\* serde_json::to_string(&SerializedDockerPanel { width })
to_string(w) ==
    IF IsSome(w) THEN <<"{", "width", ":", ToString(Unwrap(w)), "}">>
    ELSE <<"{", "width", ":", "null", "}">>

\* Numbers a stored record may hold and the parser recognises.
ParsablePixels == (0 - MaxHalfPx - 2)..(MaxHalfPx + 2)

\* serde_json::from_str::<SerializedDockerPanel>(text): a record
\* [ok, width]; an absent "width" key deserializes to None.
from_str(text) ==
    IF text = <<"{", "}">> THEN [ok |-> TRUE, width |-> None]
    ELSE IF /\ Len(text) = 5
            /\ text[1] = "{" /\ text[2] = "width" /\ text[3] = ":"
            /\ text[5] = "}"
         THEN IF text[4] = "null" THEN [ok |-> TRUE, width |-> None]
              ELSE IF \E h \in ParsablePixels : ToString(h) = text[4]
                   THEN [ok |-> TRUE,
                         width |-> Some(CHOOSE h \in ParsablePixels :
                                            ToString(h) = text[4])]
                   ELSE [ok |-> FALSE, width |-> None]
         ELSE [ok |-> FALSE, width |-> None]

\* Strings the store may hold under DEV_CONTAINER_PANEL_KEY when the program
\* starts: nothing, text that is not a SerializedDockerPanel, or a record.
MalformedRecords == { <<"{">>, <<"{", "width", ":", "wide", "}">> }
InitialRecords ==
    {None} \cup {Some(t) : t \in MalformedRecords}
           \cup {Some(<<"{", "}">>)}
           \cup {Some(to_string(w)) : w \in OptPixels}

\* DockPosition
DockPositions == {"Left", "Bottom", "Right"}

\* DockerPanelSettings.default_width values (in half pixels; 240px default)
DefaultWidths == {480}

VARIABLES
    \* --- DockerPanel and its collaborators
    kvp,                    \* KEY_VALUE_STORE["DockerPanel"]: Option<text>
    panelExists,            \* a DockerPanel view has been constructed
    width,                  \* DockerPanel.width: Option<Pixels>
    active,                 \* DockerPanel.active
    pending_serialization,  \* 0: Task::ready(None); else the n-th spawned task
    scheduled,              \* Some(w): the task behind the handle was spawned
                            \* with width w and has not been polled yet
    running,                \* bag of the widths of the tasks whose write is
                            \* in flight
    dock,                   \* DockerPanelSettings.dock in the settings file
    default_width,          \* DockerPanelSettings.default_width
    loadPc,                 \* position of the task DockerPanel::load returns
    loadRead,               \* what read_kvp gave to load
    loadResult,             \* "pending" | "ok" | "err_parse" | "err_workspace"
    writeFailed,            \* some write_kvp returned an error (logged)
    lastCall,               \* the last panel call, with a snapshot before it
    \* --- MenuBarIcon and its collaborators
    MENU_BAR_ICON,          \* Option<index into natives>
    mutex,                  \* 0: free; else the thread holding the lock
    pc,                     \* per thread: position in initialize_menu_bar_icon
    callsDone,              \* per thread: completed initialize calls
    natives,                \* native status item / delegate pairs created
    dispatched,             \* actions dispatched through the app context
    errorsLogged,           \* log_err() entries from menu clicks
    nClicks,                \* menu activations handled
    lastClick,              \* the last menu activation
    tornDown                \* a MenuBarIcon held by the holder was dropped

panelVars == <<kvp, panelExists, width, active, pending_serialization,
               scheduled, running, dock, default_width, loadPc, loadRead,
               loadResult, writeFailed, lastCall>>
menuVars == <<MENU_BAR_ICON, mutex, pc, callsDone, natives,
              dispatched, errorsLogged, nClicks, lastClick, tornDown>>
vars == <<panelVars, menuVars>>

\* ====================================================== DockerPanel
NoCall == [op |-> "none", flag |-> FALSE, pos |-> "Left", notified |-> FALSE,
           wasActive |-> FALSE, widthBefore |-> None, pendingBefore |-> 0,
           dockBefore |-> "Left"]

\* A call, what it was given, whether it called cx.notify(), and the fields
\* as they were when it was made.
Call(op, flag, pos, notified) ==
    [op |-> op, flag |-> flag, pos |-> pos, notified |-> notified,
     wasActive |-> active, widthBefore |-> width,
     pendingBefore |-> pending_serialization, dockBefore |-> dock]

NoRead == [kind |-> "none", text |-> <<>>]

PanelInit ==
    /\ kvp \in InitialRecords
    /\ panelExists = FALSE
    /\ width = None
    /\ active = FALSE
    /\ pending_serialization = 0
    /\ scheduled = None
    /\ running = EmptyBag
    /\ dock = "Left"
    /\ default_width \in DefaultWidths
    /\ loadPc = "idle"
    /\ loadRead = NoRead
    /\ loadResult = "pending"
    /\ writeFailed = FALSE
    /\ lastCall = NoCall

\* The panel left alone, no record stored.
PanelIdle ==
    /\ kvp = None
    /\ panelExists = FALSE
    /\ width = None
    /\ active = FALSE
    /\ pending_serialization = 0
    /\ scheduled = None
    /\ running = EmptyBag
    /\ dock = "Left"
    /\ default_width \in DefaultWidths
    /\ loadPc = "idle"
    /\ loadRead = NoRead
    /\ loadResult = "pending"
    /\ writeFailed = FALSE
    /\ lastCall = NoCall

\* DockerPanel::new: width None, active false, Task::ready(None).
new ==
    /\ ~panelExists
    /\ loadPc = "idle"
    /\ panelExists' = TRUE
    /\ width' = None
    /\ active' = FALSE
    /\ pending_serialization' = 0
    /\ lastCall' = Call("new", FALSE, dock, FALSE)
    /\ UNCHANGED <<kvp, scheduled, running, dock, default_width, loadPc,
                   loadRead, loadResult, writeFailed>>
    /\ UNCHANGED menuVars

\* DockerPanel::load, first step: cx.spawn of the async block.
load_spawn ==
    /\ ~panelExists
    /\ loadPc = "idle"
    /\ loadPc' = "reading"
    /\ UNCHANGED <<kvp, panelExists, width, active, pending_serialization,
                   scheduled, running, dock, default_width, loadRead,
                   loadResult, writeFailed, lastCall>>
    /\ UNCHANGED menuVars

\* The background read_kvp(DEV_CONTAINER_PANEL_KEY) with .log_err().flatten():
\* a read error and a missing record both give None.
load_read_kvp(readOk) ==
    /\ loadPc = "reading"
    /\ loadPc' = "parsing"
    /\ loadRead' = IF ~readOk THEN [kind |-> "error", text |-> <<>>]
                   ELSE IF IsSome(kvp)
                        THEN [kind |-> "value", text |-> Unwrap(kvp)]
                        ELSE [kind |-> "missing", text |-> <<>>]
    /\ UNCHANGED <<kvp, panelExists, width, active, pending_serialization,
                   scheduled, running, dock, default_width, loadResult,
                   writeFailed, lastCall>>
    /\ UNCHANGED menuVars

\* The rest of load: from_str(..)? on a record that was read, then
\* workspace.update(..) building the panel and applying the rounded width.
load_finish(workspaceAlive) ==
    /\ loadPc = "parsing"
    /\ loadPc' = "done"
    /\ LET hasText == loadRead.kind = "value"
           parsed == IF hasText THEN from_str(loadRead.text)
                     ELSE [ok |-> TRUE, width |-> None]
       IN  IF hasText /\ ~parsed.ok
           THEN \* `?` returns the parse error to the caller
                /\ loadResult' = "err_parse"
                /\ UNCHANGED <<panelExists, width, active,
                               pending_serialization>>
                /\ lastCall' = Call("load", FALSE, dock, FALSE)
           ELSE IF ~workspaceAlive
           THEN \* workspace.update fails on a released workspace
                /\ loadResult' = "err_workspace"
                /\ UNCHANGED <<panelExists, width, active,
                               pending_serialization>>
                /\ lastCall' = Call("load", FALSE, dock, FALSE)
           ELSE /\ loadResult' = "ok"
                /\ panelExists' = TRUE
                /\ active' = FALSE
                /\ pending_serialization' = 0
                /\ width' = IF hasText /\ IsSome(parsed.width)
                            THEN Some(round(Unwrap(parsed.width)))
                            ELSE None
                /\ lastCall' = Call("load", FALSE, dock, hasText)
    /\ UNCHANGED <<kvp, scheduled, running, dock, default_width, loadRead,
                   writeFailed>>
    /\ UNCHANGED menuVars

\* DockerPanel::serialize: spawn a background write of the width and replace
\* the handle. Dropping the old handle cancels its task when that has not
\* been polled yet; a task already polled keeps its write in flight.
serialize(w) ==
    /\ scheduled' = Some(w)
    /\ pending_serialization' = pending_serialization + 1
    /\ UNCHANGED running

\* Panel::set_size
set_size(sz) ==
    /\ panelExists
    /\ pending_serialization < MaxSetSize
    /\ width' = sz
    /\ serialize(sz)
    /\ lastCall' = Call("set_size", FALSE, dock, TRUE)
    /\ UNCHANGED <<kvp, panelExists, active, dock, default_width, loadPc,
                   loadRead, loadResult, writeFailed>>
    /\ UNCHANGED menuVars

\* The spawned future is polled on the background executor: write_kvp is
\* called with the width the task captured.
task_poll ==
    /\ IsSome(scheduled)
    /\ running' = running (+) SetToBag({Unwrap(scheduled)})
    /\ scheduled' = None
    /\ UNCHANGED <<kvp, panelExists, width, active, pending_serialization,
                   dock, default_width, loadPc, loadRead, loadResult,
                   writeFailed, lastCall>>
    /\ UNCHANGED menuVars

\* write_kvp(KEY, to_string(width)).await? completes; an error is logged.
task_write_kvp(w, writeOk) ==
    /\ BagIn(w, running)
    /\ running' = running (-) SetToBag({w})
    /\ IF writeOk
       THEN /\ kvp' = Some(to_string(w))
            /\ writeFailed' = writeFailed
       ELSE /\ kvp' = kvp
            /\ writeFailed' = TRUE
    /\ UNCHANGED <<panelExists, width, active, pending_serialization,
                   scheduled, dock, default_width, loadPc, loadRead,
                   loadResult, lastCall>>
    /\ UNCHANGED menuVars

\* set_active notifying only on a change from inactive to active.
set_active_on_transition(flag) ==
    /\ panelExists
    /\ active' = flag
    /\ lastCall' = Call("set_active", flag, dock, flag /\ ~active)
    /\ UNCHANGED <<kvp, panelExists, width, pending_serialization, scheduled,
                   running, dock, default_width, loadPc, loadRead,
                   loadResult, writeFailed>>
    /\ UNCHANGED menuVars

\* Panel::set_active: cx.notify() when self.active is true after the store.
set_active(flag) ==
    /\ panelExists
    /\ active' = flag
    /\ lastCall' = Call("set_active", flag, dock, active')
    /\ UNCHANGED <<kvp, panelExists, width, pending_serialization, scheduled,
                   running, dock, default_width, loadPc, loadRead,
                   loadResult, writeFailed>>
    /\ UNCHANGED menuVars

\* Panel::position_is_valid
position_is_valid(p) == p \in {"Left", "Right"}

\* Panel::position
position == dock

\* Panel::set_position: update_settings_file(|s| s.dock = Some(position))
set_position(p) ==
    /\ panelExists
    /\ dock' = p
    /\ lastCall' = Call("set_position", FALSE, p, FALSE)
    /\ UNCHANGED <<kvp, panelExists, width, active, pending_serialization,
                   scheduled, running, default_width, loadPc, loadRead,
                   loadResult, writeFailed>>
    /\ UNCHANGED menuVars

\* Panel::size
size == IF IsSome(width) THEN Unwrap(width) ELSE default_width

PanelNext ==
    \/ new
    \/ load_spawn
    \/ \E readOk \in BOOLEAN : load_read_kvp(readOk)
    \/ \E workspaceAlive \in BOOLEAN : load_finish(workspaceAlive)
    \/ \E sz \in OptPixels : set_size(sz)
    \/ task_poll
    \/ \E w \in OptPixels, writeOk \in BOOLEAN : task_write_kvp(w, writeOk)
    \/ \E flag \in BOOLEAN : set_active(flag)
    \/ \E p \in DockPositions : set_position(p)

\* ====================================================== MenuBarIcon
Threads == {1, 2}

\* Sender tags a menu activation may carry (i64 in the source).
Tags == {0 - 1, 0, 1, 2, 3, 4, 99}

\* What MenuBarIcon::new builds: the status item is owned by the status bar
\* and retained once more by new; the delegate comes from alloc/init with a
\* boxed AsyncApp in its async_cx ivar; the menu items carry tags 1, 2, 3.
FreshPair == [itemRetain |-> 2, inBar |-> TRUE, menuTags |-> {1, 2, 3},
              delegateRetain |-> 1, ctxFreed |-> 0]

NoClick == [tag |-> 0, updateOk |-> TRUE]

MenuInit ==
    /\ MENU_BAR_ICON = None
    /\ mutex = 0
    /\ pc = [t \in Threads |-> "idle"]
    /\ callsDone = [t \in Threads |-> 0]
    /\ natives = <<>>
    /\ dispatched = <<>>
    /\ errorsLogged = 0
    /\ nClicks = 0
    /\ lastClick = NoClick
    /\ tornDown = FALSE

\* dealloc of ZedMenuBarDelegate: Box::from_raw on a non-null async_cx.
dealloc(n) == [n EXCEPT !.ctxFreed = n.ctxFreed + 1]

\* [delegate release]: the object is deallocated when its count reaches 0.
release(n) ==
    LET m == [n EXCEPT !.delegateRetain = n.delegateRetain - 1]
    IN  IF m.delegateRetain = 0 THEN dealloc(m) ELSE m

\* A drop that removes the status item and forgets the delegate.
icon_drop_leak(n) == [n EXCEPT !.inBar = FALSE, !.itemRetain = n.itemRetain - 1]

\* Drop for MenuBarIcon: removeStatusItem, then release the delegate.
icon_drop(n) ==
    release([n EXCEPT !.inBar = FALSE, !.itemRetain = n.itemRetain - 1])

\* MENU_BAR_ICON.lock(): the mutex is taken when it is free.
initialize_lock(t) ==
    /\ pc[t] = "idle"
    /\ callsDone[t] < MaxCalls
    /\ mutex = 0
    /\ mutex' = t
    /\ pc' = [pc EXCEPT ![t] = "check"]
    /\ UNCHANGED <<MENU_BAR_ICON, callsDone, natives, dispatched,
                   errorsLogged, nClicks, lastClick, tornDown>>
    /\ UNCHANGED panelVars

\* The is_none() test left out: every call builds a MenuBarIcon.
initialize_check_unguarded(t) ==
    /\ pc[t] = "check"
    /\ pc' = [pc EXCEPT ![t] = "new"]
    /\ UNCHANGED <<MENU_BAR_ICON, mutex, callsDone, natives, dispatched,
                   errorsLogged, nClicks, lastClick, tornDown>>
    /\ UNCHANGED panelVars

\* if icon.is_none()
initialize_check(t) ==
    /\ pc[t] = "check"
    /\ pc' = [pc EXCEPT ![t] = IF MENU_BAR_ICON = None THEN "new"
                                ELSE "unlock"]
    /\ UNCHANGED <<MENU_BAR_ICON, mutex, callsDone, natives, dispatched,
                   errorsLogged, nClicks, lastClick, tornDown>>
    /\ UNCHANGED panelVars

\* *icon = Some(MenuBarIcon::new(cx)); a value overwritten is dropped.
initialize_new(t) ==
    /\ pc[t] = "new"
    /\ LET k == Len(natives) + 1
           kept == [i \in DOMAIN natives |->
                      IF MENU_BAR_ICON = Some(i) THEN icon_drop(natives[i])
                      ELSE natives[i]]
       IN  /\ natives' = Append(kept, FreshPair)
           /\ MENU_BAR_ICON' = Some(k)
    /\ pc' = [pc EXCEPT ![t] = "unlock"]
    /\ UNCHANGED <<mutex, callsDone, dispatched, errorsLogged, nClicks,
                   lastClick, tornDown>>
    /\ UNCHANGED panelVars

\* The guard goes out of scope at the end of initialize_menu_bar_icon.
initialize_unlock(t) ==
    /\ pc[t] = "unlock"
    /\ mutex' = 0
    /\ pc' = [pc EXCEPT ![t] = "idle"]
    /\ callsDone' = [callsDone EXCEPT ![t] = callsDone[t] + 1]
    /\ UNCHANGED <<MENU_BAR_ICON, natives, dispatched, errorsLogged, nClicks,
                   lastClick, tornDown>>
    /\ UNCHANGED panelVars

\* The arms for tags 2 and 3 exchanged.
action_for_tag_swapped(tag) ==
    IF tag = 1 THEN <<"NewThread">>
    ELSE IF tag = 2 THEN <<"Quit">>
    ELSE IF tag = 3 THEN <<"OpenAccountSettings">>
    ELSE <<>>

\* A default arm that quits.
action_for_tag_default_quit(tag) ==
    IF tag = 1 THEN <<"NewThread">>
    ELSE IF tag = 2 THEN <<"OpenAccountSettings">>
    ELSE <<"Quit">>

\* The match on the sender's tag in handle_menu_action: the actions whose
\* dispatch is attempted.
action_for_tag(tag) ==
    IF tag = 1 THEN <<"NewThread">>
    ELSE IF tag = 2 THEN <<"OpenAccountSettings">>
    ELSE IF tag = 3 THEN <<"Quit">>
    ELSE <<>>

\* handle_menu_action on the delegate of a status item shown in the bar;
\* updateOk is the outcome of async_cx.update(..), whose error is logged.
handle_menu_action(k, tag, updateOk) ==
    /\ nClicks < MaxClicks
    /\ k \in DOMAIN natives
    /\ natives[k].inBar
    /\ natives[k].delegateRetain > 0
    /\ LET acts == action_for_tag(tag)
       IN  IF acts = <<>>
           THEN UNCHANGED <<dispatched, errorsLogged>>
           ELSE IF updateOk
                THEN /\ dispatched' = dispatched \o acts
                     /\ errorsLogged' = errorsLogged
                ELSE /\ dispatched' = dispatched
                     /\ errorsLogged' = errorsLogged + 1
    /\ nClicks' = nClicks + 1
    /\ lastClick' = [tag |-> tag, updateOk |-> updateOk]
    /\ UNCHANGED <<MENU_BAR_ICON, mutex, pc, callsDone, natives, tornDown>>
    /\ UNCHANGED panelVars

\* The holder's value is dropped (teardown): Drop for MenuBarIcon runs.
drop ==
    /\ IsSome(MENU_BAR_ICON)
    /\ mutex = 0
    /\ natives' = [natives EXCEPT ![Unwrap(MENU_BAR_ICON)] =
                       icon_drop(natives[Unwrap(MENU_BAR_ICON)])]
    /\ MENU_BAR_ICON' = None
    /\ tornDown' = TRUE
    /\ UNCHANGED <<mutex, pc, callsDone, dispatched, errorsLogged, nClicks,
                   lastClick>>
    /\ UNCHANGED panelVars

MenuNext ==
    \/ \E t \in Threads : initialize_lock(t)
    \/ \E t \in Threads : initialize_check(t)
    \/ \E t \in Threads : initialize_new(t)
    \/ \E t \in Threads : initialize_unlock(t)
    \/ \E k \in 1..Len(natives), tag \in Tags, updateOk \in BOOLEAN :
           handle_menu_action(k, tag, updateOk)
    \/ drop

\* ====================================================== specifications
InitPanel == PanelInit /\ MenuInit
InitMenu == MenuInit /\ PanelIdle

SpecPanel == InitPanel /\ [][PanelNext]_vars
SpecMenu == InitMenu /\ [][MenuNext]_vars

\* ====================================================== properties

\* ---- C1: after any number of initialize_menu_bar_icon calls by any threads
\* (and no teardown), MenuBarIcon::new has run exactly once: one status item /
\* delegate pair exists, it is the one the holder names, and it is as new
\* built it, so no later call has touched the holder or the native objects.
InitializeOnce ==
    /\ ~tornDown => Len(natives) <= 1
    /\ (~tornDown /\ \E t \in Threads : callsDone[t] > 0) =>
           /\ natives = <<FreshPair>>
           /\ MENU_BAR_ICON = Some(1)

\* Both threads have completed a call, one of them a second one.
InitializeOnceWitness ==
    /\ ~tornDown
    /\ callsDone[1] >= 1 /\ callsDone[2] >= 1
    /\ callsDone[1] + callsDone[2] >= 3
    /\ natives = <<FreshPair>>

\* ---- C2 (as claimed): when set_size was called twice and all background
\* activity has finished with no write error, the stored record holds the
\* final width, the one the panel has.
LastWriteWins ==
    (/\ pending_serialization >= 2
     /\ scheduled = None
     /\ running = EmptyBag
     /\ ~writeFailed) => kvp = Some(to_string(width))

\* ---- C3 (as claimed): for every outcome of reading the store, load yields
\* a panel and no error (the workspace being alive); on a missing or malformed
\* record the panel has the default state.
LoadNeverFails ==
    (loadPc = "done" /\ lastCall.op = "load" /\ loadResult # "err_workspace") =>
        /\ loadResult = "ok"
        /\ panelExists
        /\ (\/ loadRead.kind \in {"error", "missing"}
            \/ loadRead.text \in MalformedRecords) => (width = None /\ ~active)

\* The action a tag is documented to stand for.
TagAction(tag) ==
    CASE tag = 1 -> "NewThread"
      [] tag = 2 -> "OpenAccountSettings"
      [] tag = 3 -> "Quit"

\* A step that handles a menu activation.
IsClick == nClicks' = nClicks + 1

\* ---- C4 (as claimed): every activation with tag 1, 2 or 3 dispatches
\* exactly one action, the one its tag stands for.
TagDispatchAlways ==
    [][(IsClick /\ lastClick'.tag \in {1, 2, 3}) =>
           dispatched' = Append(dispatched, TagAction(lastClick'.tag))]_vars

\* ---- C4 (amended): an activation with tag 1, 2 or 3 whose update of the
\* application context succeeds dispatches exactly one action, the one its
\* tag stands for; when the update fails no action fires and one error is
\* logged.
TagDispatch ==
    [][(IsClick /\ lastClick'.tag \in {1, 2, 3}) =>
           IF lastClick'.updateOk
           THEN /\ dispatched' = Append(dispatched, TagAction(lastClick'.tag))
                /\ errorsLogged' = errorsLogged
           ELSE /\ dispatched' = dispatched
                /\ errorsLogged' = errorsLogged + 1]_vars

\* A click with tag 2 has fired open-settings once and nothing else.
TagDispatchWitness ==
    /\ nClicks = 1
    /\ lastClick.tag = 2
    /\ dispatched = <<"OpenAccountSettings">>

\* ---- C5: an activation with a tag other than 1, 2, 3 dispatches nothing,
\* logs no error and leaves the holder, the lock and the native objects as
\* they were (the status item stays in the bar with its delegate alive).
UnknownTagNoop ==
    [][(IsClick /\ lastClick'.tag \notin {1, 2, 3}) =>
           /\ dispatched' = dispatched
           /\ errorsLogged' = errorsLogged
           /\ MENU_BAR_ICON' = MENU_BAR_ICON
           /\ natives' = natives
           /\ \E k \in DOMAIN natives' :
                  natives'[k].inBar /\ natives'[k].delegateRetain > 0]_vars

\* Tag 99 was clicked after an action had fired, and nothing more fired.
UnknownTagWitness ==
    /\ nClicks = 2
    /\ lastClick.tag = 99
    /\ Len(dispatched) = 1
    /\ errorsLogged = 0
    /\ IsSome(MENU_BAR_ICON)

\* ---- C6: the panel load builds is determined by the record: a stored width
\* w gives a size that is a whole number of pixels nearest to w (at most half
\* a pixel away, a half going away from zero); no record gives width None,
\* active false and the size default_width.
LoadedState ==
    (lastCall.op = "load" /\ loadResult = "ok") =>
        /\ \A h \in ParsablePixels :
               (/\ loadRead.kind = "value"
                /\ loadRead.text = <<"{", "width", ":", ToString(h), "}">>) =>
                   /\ IsSome(width)
                   /\ size = Unwrap(width)
                   /\ size % 2 = 0
                   /\ Abs(size - h) <= 1
                   /\ Abs(size) >= Abs(h)
        /\ loadRead.kind = "missing" =>
               (width = None /\ ~active /\ size = default_width)

\* A stored width of half a pixel was loaded as one pixel.
LoadedStateWitness ==
    /\ lastCall.op = "load"
    /\ loadResult = "ok"
    /\ loadRead.text = <<"{", "width", ":", "1", "}">>
    /\ size = 2

\* ---- C7 (as claimed): position_is_valid is true exactly for Left and
\* Right, and a set_position with any other position leaves the dock setting
\* as it was.
SetPositionRejectsInvalid ==
    /\ \A p \in DockPositions : position_is_valid(p) <=> p \in {"Left", "Right"}
    /\ (lastCall.op = "set_position" /\ lastCall.pos \notin {"Left", "Right"}) =>
           position = lastCall.dockBefore

\* ---- C8: a status item / delegate pair the holder holds is in the status
\* bar with its context handle not released; a pair that was dropped is out
\* of the status bar and its context handle was released exactly once.
ReleasedExactlyOnce ==
    \A k \in DOMAIN natives :
        IF MENU_BAR_ICON = Some(k)
        THEN /\ natives[k].inBar
             /\ natives[k].delegateRetain = 1
             /\ natives[k].ctxFreed = 0
        ELSE /\ ~natives[k].inBar
             /\ natives[k].delegateRetain = 0
             /\ natives[k].ctxFreed = 1

\* Initialized, clicked, then torn down.
ReleasedWitness ==
    /\ tornDown
    /\ nClicks > 0
    /\ MENU_BAR_ICON = None
    /\ natives[1].ctxFreed = 1
    /\ ~natives[1].inBar

\* What every set_active call leaves alone, and the flag it stores.
SetActiveFrame ==
    /\ active = lastCall.flag
    /\ width = lastCall.widthBefore
    /\ pending_serialization = lastCall.pendingBefore

\* ---- C9 (as claimed): set_active stores the flag, never signals a redraw
\* for flag = false, signals one only on a change from inactive to active,
\* and leaves width and the pending task alone.
SetActiveRedrawOnTransition ==
    lastCall.op = "set_active" =>
        /\ SetActiveFrame
        /\ ~lastCall.flag => ~lastCall.notified
        /\ lastCall.notified => (lastCall.flag /\ ~lastCall.wasActive)

\* ---- C9 (amended): set_active stores the flag and signals a redraw exactly
\* when the flag is true, whether or not the panel was active before; width
\* and the pending task are left alone.
SetActiveRedraw ==
    lastCall.op = "set_active" =>
        /\ SetActiveFrame
        /\ lastCall.notified <=> lastCall.flag

\* set_active(true) on a panel that was active, resized before.
SetActiveWitness ==
    /\ lastCall.op = "set_active"
    /\ lastCall.flag /\ lastCall.wasActive /\ lastCall.notified
    /\ IsSome(width)
    /\ pending_serialization > 0

\* ---- C10 (as claimed): the width of a panel is None or not negative.
WidthNonNegative ==
    panelExists => (width = None \/ Unwrap(width) >= 0)

====
